---- MODULE Spec2Model ----
(***************************************************************************)
(* Cluster autoscaler: the AWS manager's group-membership cache            *)
(* (aws_manager.go), the AWS node group (aws_cloud_provider.go), the GCE   *)
(* node group (provider/gce/gce.go) and the scale-up cycle (scale_up.go).  *)
(***************************************************************************)
EXTENDS Integers, Sequences, FiniteSets, TLC

(***************************************************************************)
(* Bounds of the model.                                                    *)
(***************************************************************************)
\* longest list of groups registered with the manager (len(m.asgs))
MaxAsgs == 2
\* longest argument list of DeleteNodes / DeleteInstances
MaxNodes == 2
\* largest DesiredCapacity the backend starts with
MaxCap == 2
\* number of pending pods a cycle can be given
NumPods == 2
\* longest list of observed nodes a cycle can be given
MaxObserved == 2
\* largest target size a GCE group starts with
MaxInitSize == 2
\* largest delta handed to IncreaseSize
MaxDelta == 2
\* largest size handed to SetSize directly
MaxRequest == 4
\* longest spec string handed to buildAsg
MaxSpecLen == 5
\* longest list of spec strings handed to BuildAwsCloudProvider
MaxSpecs == 3
\* largest number whose decimal text is tried as a size field
MaxNumber == 12
\* longest list of nodes handed to GetNodeGroups directly
MaxResolved == 3

(***************************************************************************)
(* The universe: configured groups, backend instances, node ids.           *)
(***************************************************************************)
\* goroutines: the wait.Forever refresher and the callers of the manager
Procs == {"bg", "c1"}
NoProc == "none"

\* *Asg values built by buildAsg; NoAsg is the nil *Asg
Asgs == {"A", "B"}
NoAsg == "nil"

\* Asg.AwsRef.Zone of each configured group: A and B share zone z1, and no
\* configured group lies in z2
AsgZone(g) == "z1"
\* Asg.AwsRef.Name
AsgName(g) == g
\* Asg.minSize / Asg.maxSize, as buildAsg accepts them (0 < min <= max)
AsgMinSize(g) == 1
AsgMaxSize(g) == MaxCap

\* instance ids known to the backend and the availability zones
Names == {"i1", "i2", "i3", "i4"}
Zones == {"z1", "z2"}
\* the backend's record of each instance: its group (NoAsg: in no group)
\* and its availability zone; i3 is a member of A that runs in another zone
InstAsg(n) == CASE n = "i1" -> "A" [] n = "i2" -> "B" [] n = "i3" -> "A" [] OTHER -> NoAsg
InstZone(n) == CASE n = "i3" -> "z2" [] OTHER -> "z1"

\* AwsRef{Zone, Name}
AwsRef(z, n) == [Zone |-> z, Name |-> n]
Refs == [Zone : Zones, Name : Names]

\* errors, by the place that makes them
ErrNil == "nil"
ErrBackend == "backend call failed"
ErrLookup == "Error while looking for ASG for instance"
ErrNotConfigured == "Instance does not belong to any configured ASG"
ErrMixed == "Cannot delete instances which don't belong to the same ASG."
ErrMinSize == "min size reached, nodes will not be deleted"
ErrDifferent == "belong to a different asg"
ErrUnknown == "doesn't belong to a known asg"
ErrWrongId == "Wrong id"

\* the empty map[AwsRef]*Asg
EmptyCache == [r \in Refs |-> NoAsg]

VARIABLES
    asgs,        \* m.asgs: the registered groups, in registration order
    asgCache,    \* m.asgCache: AwsRef -> *Asg (NoAsg: key absent)
    cacheMutex,  \* m.cacheMutex: the goroutine holding it, or NoProc
    desired,     \* backend: DesiredCapacity of each group
    pc,          \* each goroutine's position
    stack,       \* each goroutine's pending return positions
    loc,         \* each goroutine's arguments and locals
    ret,         \* each goroutine's last returned value
    obs          \* observation of each goroutine's current call (history)

awsVars == <<asgs, asgCache, cacheMutex, desired, pc, stack, loc, ret, obs>>

VARIABLES
    migSize,     \* GCE backend: the target size of each instance group
    su           \* the running ScaleUp cycle: position, arguments, locals

suVars == <<migSize, su>>

VARIABLES
    ng,          \* direct calls of the node groups' size operations
    bld,         \* the construction of the provider from spec strings
    gn           \* a direct call of GceProvider.GetNodeGroups

vars == <<asgs, asgCache, cacheMutex, desired, pc, stack, loc, ret, obs, migSize, su, ng, bld, gn>>

\* the locals of an idle goroutine
NoLoc == [op |-> "none", asg |-> NoAsg, instance |-> AwsRef("z1", "i1"),
          node |-> <<>>, nodes |-> <<>>, instances |-> <<>>, refs |-> <<>>,
          commonAsg |-> NoAsg, i |-> 0, j |-> 0, rcIdx |-> 0,
          newCache |-> EmptyCache]
NoRet == [asg |-> NoAsg, ok |-> FALSE, err |-> ErrNil]
\* history of the current top-level call: the cache when the running
\* refresh started, the backend's answers to it, how it ended, the refreshes
\* and reads of the current lookup, the terminate calls issued and the
\* groups the references of DeleteInstances resolved to
NoObs == [oldCache |-> EmptyCache, listed |-> <<>>, refresh |-> "none",
          refreshes |-> 0, hit |-> FALSE, zoneMatch |-> FALSE,
          described |-> FALSE, issued |-> {}, resolved |-> {},
          owners |-> {}, size |-> -1]

\* the observation once the caller has taken a lookup's result
LookupTaken(o) == [o EXCEPT !.oldCache = EmptyCache, !.listed = <<>>,
                            !.refresh = "none", !.refreshes = 0,
                            !.hit = FALSE, !.zoneMatch = FALSE,
                            !.described = FALSE]

InitAws ==
    /\ asgs = <<>>
    /\ asgCache = EmptyCache
    /\ cacheMutex = NoProc
    /\ desired = [g \in Asgs |-> IF g = "A" THEN MaxCap ELSE 1]
    /\ pc = [p \in Procs |-> "idle"]
    /\ stack = [p \in Procs |-> <<>>]
    /\ loc = [p \in Procs |-> NoLoc]
    /\ ret = [p \in Procs |-> NoRet]
    /\ obs = [p \in Procs |-> NoObs]

(***************************************************************************)
(* Calls and returns.                                                      *)
(***************************************************************************)
\* return r to the caller: continue at the position on top of the stack
Return(p, r) ==
    /\ pc' = [pc EXCEPT ![p] = Head(stack[p])]
    /\ stack' = [stack EXCEPT ![p] = Tail(stack[p])]
    /\ ret' = [ret EXCEPT ![p] = r]

\* enter a callee at position at, to come back at position back
Call(p, at, back) ==
    /\ pc' = [pc EXCEPT ![p] = at]
    /\ stack' = [stack EXCEPT ![p] = <<back>> \o stack[p]]
    /\ UNCHANGED ret

Goto(p, at) ==
    /\ pc' = [pc EXCEPT ![p] = at]
    /\ UNCHANGED <<stack, ret>>

(***************************************************************************)
(* The backend (AWS autoscaling service), as the manager's calls see it.   *)
(***************************************************************************)
AllNames == <<"i1", "i2", "i3", "i4">>

\* group.Instances of the DescribeAutoScalingGroups answer for a registered
\* group (the request names the entry's basename; the backend is taken to
\* answer for the entry's group)
GroupInstances(g) == SelectSeq(AllNames, LAMBDA n : InstAsg(n) = g)

\* a mutant: the key takes the group's zone, not the instance's
CacheInsertGroupZone(cache, g, insts, k) ==
    [r \in Refs |->
        IF \E m \in 1..k : r = AwsRef(AsgZone(g), insts[m])
        THEN g ELSE cache[r]]

\* newCache[AwsRef{Zone: *details.AvailabilityZone, Name: *instance.InstanceId}] = asg.config
\* for the first k instances of the listing
CacheInsert(cache, g, insts, k) ==
    [r \in Refs |->
        IF \E m \in 1..k : r = AwsRef(InstZone(insts[m]), insts[m])
        THEN g ELSE cache[r]]

(***************************************************************************)
(* regenerateCache: runs with cacheMutex held by its caller.               *)
(***************************************************************************)
\* the caller's entry into regenerateCache: newCache := make(map[AwsRef]*Asg)
EnterRegenerateCache(p, o) ==
    /\ loc' = [loc EXCEPT ![p].rcIdx = 1, ![p].newCache = EmptyCache]
    /\ obs' = [obs EXCEPT ![p] = [o EXCEPT !.oldCache = asgCache,
                                           !.listed = <<>>,
                                           !.refresh = "running",
                                           !.refreshes = o.refreshes + 1]]

\* a mutant: the loop body writes into m.asgCache instead of newCache
StoreInCache(p, c) ==
    /\ asgCache' = c
    /\ loc' = [loc EXCEPT ![p].rcIdx = loc[p].rcIdx + 1, ![p].newCache = c]

\* the loop body's writes go to the local newCache; m.asgCache is untouched
StoreNewCache(p, c) ==
    /\ loc' = [loc EXCEPT ![p].rcIdx = loc[p].rcIdx + 1, ![p].newCache = c]
    /\ UNCHANGED asgCache

\* one iteration of `for _, asg := range m.asgs`: describe the group, then
\* describe each listed instance; k = 0: DescribeAutoScalingGroups fails,
\* k in 1..Len: DescribeAutoScalingInstances fails for the k-th instance,
\* k = Len + 1: every call succeeds
RegenerateCacheGroup(p) ==
    /\ pc[p] = "rc_loop"
    /\ loc[p].rcIdx <= Len(asgs)
    /\ LET g == asgs[loc[p].rcIdx]
           insts == GroupInstances(g)
       IN \E k \in 0..(Len(insts) + 1) :
            IF k = Len(insts) + 1
            THEN /\ StoreNewCache(p, CacheInsert(loc[p].newCache, g, insts, Len(insts)))
                 /\ obs' = [obs EXCEPT ![p].listed =
                                Append(@, [asg |-> g, names |-> insts]),
                                       ![p].described = TRUE]
                 /\ UNCHANGED <<pc, stack, ret>>
            ELSE /\ loc' = [loc EXCEPT ![p].rcIdx = 0, ![p].newCache = EmptyCache]
                 /\ obs' = [obs EXCEPT ![p].refresh = "failed",
                                       ![p].described = TRUE]
                 /\ Return(p, [NoRet EXCEPT !.err = ErrBackend])
                 /\ UNCHANGED asgCache
    /\ UNCHANGED <<asgs, cacheMutex, desired>>

\* a mutant: the new map is dropped instead of being swapped in
KeepOldCache(p) ==
    /\ asgCache' = asgCache

\* m.asgCache = newCache
SwapCache(p) ==
    /\ asgCache' = loc[p].newCache

\* after the last group: m.asgCache = newCache; return nil
RegenerateCacheSwap(p) ==
    /\ pc[p] = "rc_loop"
    /\ loc[p].rcIdx > Len(asgs)
    /\ SwapCache(p)
    /\ loc' = [loc EXCEPT ![p].rcIdx = 0, ![p].newCache = EmptyCache]
    /\ obs' = [obs EXCEPT ![p].refresh = "ok"]
    /\ Return(p, NoRet)
    /\ UNCHANGED <<asgs, cacheMutex, desired>>

(***************************************************************************)
(* regenerateCacheIgnoreError: the body of the wait.Forever task.          *)
(***************************************************************************)
\* a mutant: the background refresh runs without taking the mutex
RegenerateCacheIgnoreErrorNoLock(p) ==
    /\ p = "bg"
    /\ pc[p] = "idle"
    /\ EnterRegenerateCache(p, obs[p])
    /\ Call(p, "rc_loop", "ie_after")
    /\ UNCHANGED <<asgs, asgCache, cacheMutex, desired>>

\* m.cacheMutex.Lock(); then regenerateCache()
RegenerateCacheIgnoreError(p) ==
    /\ p = "bg"
    /\ pc[p] = "idle"
    /\ cacheMutex = NoProc
    /\ cacheMutex' = p
    /\ EnterRegenerateCache(p, obs[p])
    /\ Call(p, "rc_loop", "ie_after")
    /\ UNCHANGED <<asgs, asgCache, desired>>

\* the error is logged and dropped; the deferred Unlock runs
RegenerateCacheIgnoreErrorDone(p) ==
    /\ pc[p] = "ie_after"
    /\ cacheMutex' = NoProc
    /\ pc' = [pc EXCEPT ![p] = "idle"]
    /\ loc' = [loc EXCEPT ![p] = NoLoc]
    /\ obs' = [obs EXCEPT ![p] = NoObs]
    /\ ret' = [ret EXCEPT ![p] = NoRet]
    /\ UNCHANGED <<asgs, asgCache, desired, stack>>

(***************************************************************************)
(* RegisterAsg                                                             *)
(***************************************************************************)
\* m.cacheMutex.Lock()
RegisterAsg(p, g) ==
    /\ p # "bg"
    /\ pc[p] = "idle"
    /\ Len(asgs) < MaxAsgs
    /\ \A k \in 1..Len(asgs) : asgs[k] # g
    /\ cacheMutex = NoProc
    /\ cacheMutex' = p
    /\ loc' = [loc EXCEPT ![p].op = "RegisterAsg", ![p].asg = g]
    /\ Call(p, "ra_body", "done")
    /\ UNCHANGED <<asgs, asgCache, desired, obs>>

\* m.asgs = append(m.asgs, &asgInformation{config: asg}); deferred Unlock
RegisterAsgBody(p) ==
    /\ pc[p] = "ra_body"
    /\ asgs' = Append(asgs, loc[p].asg)
    /\ cacheMutex' = NoProc
    /\ Return(p, NoRet)
    /\ UNCHANGED <<asgCache, desired, loc, obs>>

(***************************************************************************)
(* GetAsgForInstance                                                       *)
(***************************************************************************)
\* a mutant: any miss refreshes, whatever the zone
AnyZone(z) == TRUE

\* `for _, asg := range m.asgs { if asg.config.Zone == instance.Zone {`
ZoneConfigured(z) == \E k \in 1..Len(asgs) : AsgZone(asgs[k]) = z

\* m.cacheMutex.Lock()
GetAsgForInstanceLock(p) ==
    /\ pc[p] = "gafi"
    /\ cacheMutex = NoProc
    /\ cacheMutex' = p
    /\ obs' = [obs EXCEPT ![p] = LookupTaken(@)]
    /\ Goto(p, "gafi_read")
    /\ UNCHANGED <<asgs, asgCache, desired, loc>>

\* return with the deferred Unlock
UnlockReturn(p, r) ==
    /\ cacheMutex' = NoProc
    /\ Return(p, r)

\* what the lookup finds when it takes the mutex: whether the reference is
\* a key of the map, and whether a registered group lies in its zone
ObserveRead(p) ==
    [obs[p] EXCEPT !.hit = asgCache[loc[p].instance] # NoAsg,
                   !.zoneMatch = \E g \in Asgs :
                                    /\ \E k \in 1..Len(asgs) : asgs[k] = g
                                    /\ AsgZone(g) = loc[p].instance.Zone]

\* the first read of the cache and the scan of m.asgs for the zone
GetAsgForInstanceRead(p) ==
    /\ pc[p] = "gafi_read"
    /\ LET instance == loc[p].instance IN
       IF asgCache[instance] # NoAsg
       THEN /\ UnlockReturn(p, [NoRet EXCEPT !.asg = asgCache[instance]])
            /\ obs' = [obs EXCEPT ![p] = ObserveRead(p)]
            /\ UNCHANGED loc
       ELSE IF ZoneConfigured(instance.Zone)
       THEN /\ EnterRegenerateCache(p, ObserveRead(p))
            /\ Call(p, "rc_loop", "gafi_after")
            /\ UNCHANGED cacheMutex
       ELSE /\ UnlockReturn(p, NoRet)
            /\ obs' = [obs EXCEPT ![p] = ObserveRead(p)]
            /\ UNCHANGED loc
    /\ UNCHANGED <<asgs, asgCache, desired>>

\* a mutant: the miss after a refresh is reported as (nil, nil)
MissAfterRefreshNil == NoRet

\* return nil, fmt.Errorf("Instance %+v does not belong to any configured ASG")
MissAfterRefresh == [NoRet EXCEPT !.err = ErrNotConfigured]

\* after regenerateCache returned: the error, the second read, or the miss
GetAsgForInstanceAfter(p) ==
    /\ pc[p] = "gafi_after"
    /\ LET instance == loc[p].instance IN
       IF ret[p].err # ErrNil
       THEN UnlockReturn(p, [NoRet EXCEPT !.err = ErrLookup])
       ELSE IF asgCache[instance] # NoAsg
       THEN UnlockReturn(p, [NoRet EXCEPT !.asg = asgCache[instance]])
       ELSE UnlockReturn(p, MissAfterRefresh)
    /\ obs' = [obs EXCEPT ![p].oldCache = EmptyCache, ![p].listed = <<>>]
    /\ UNCHANGED <<asgs, asgCache, desired, loc>>

(***************************************************************************)
(* Node ids and AwsRefFromProviderId.                                      *)
(***************************************************************************)
\* node.Spec.ProviderID with the "aws://" prefix cut (id[6:]), as the list
\* of its "/"-separated parts
NodeIds == {<<"z1", "i1">>, <<"z1", "i2">>, <<"z2", "i3">>, <<"z1", "i4">>, <<"z1">>}

\* strings.Split(id[6:], "/") must give two parts
ProviderIdOk(id) == Len(id) = 2
AwsRefFromProviderId(id) == AwsRef(id[1], id[2])

\* the argument lists: up to MaxNodes nodes
RECURSIVE SeqsUpTo(_, _)
SeqsUpTo(S, n) ==
    IF n = 0 THEN {<<>>}
    ELSE LET shorter == SeqsUpTo(S, n - 1)
         IN shorter \cup {Append(q, x) : q \in {t \in shorter : Len(t) = n - 1}, x \in S}

\* the nodes handed to DeleteNodes: of this group, of the other group, of
\* no group
NodeLists == SeqsUpTo({<<"z1", "i1">>, <<"z1", "i2">>, <<"z1", "i4">>}, MaxNodes)
RefLists == SeqsUpTo({AwsRefFromProviderId(id) : id \in {d \in NodeIds : ProviderIdOk(d)}}, MaxNodes)

(***************************************************************************)
(* AwsCloudProvider.NodeGroupForNode                                       *)
(***************************************************************************)
NodeGroupForNode(p, node) ==
    /\ p # "bg"
    /\ pc[p] = "idle"
    /\ IF ProviderIdOk(node)
       THEN /\ loc' = [loc EXCEPT ![p].op = "NodeGroupForNode", ![p].node = node,
                                  ![p].instance = AwsRefFromProviderId(node)]
            /\ Call(p, "gafi", "done")
       ELSE /\ loc' = [loc EXCEPT ![p].op = "NodeGroupForNode", ![p].node = node]
            /\ pc' = [pc EXCEPT ![p] = "done"]
            /\ ret' = [ret EXCEPT ![p] = [NoRet EXCEPT !.err = ErrWrongId]]
            /\ UNCHANGED stack
    /\ UNCHANGED <<asgs, asgCache, cacheMutex, desired, obs>>

(***************************************************************************)
(* Asg.Belongs                                                             *)
(***************************************************************************)
\* Asg.Id(): GenerateAsgUrl(asg.Zone, asg.Name)
AsgId(g) == <<AsgZone(g), AsgName(g)>>

Belongs(p, g, node) ==
    /\ p # "bg"
    /\ pc[p] = "idle"
    /\ loc' = [loc EXCEPT ![p].op = "Belongs", ![p].asg = g, ![p].node = node]
    /\ Call(p, "bl", "done")
    /\ UNCHANGED <<asgs, asgCache, cacheMutex, desired, obs>>

\* ref, err := AwsRefFromProviderId(node.Spec.ProviderID); GetAsgForInstance(ref)
BelongsStart(p) ==
    /\ pc[p] = "bl"
    /\ IF ProviderIdOk(loc[p].node)
       THEN /\ loc' = [loc EXCEPT ![p].instance = AwsRefFromProviderId(loc[p].node)]
            /\ Call(p, "gafi", "bl_after")
       ELSE /\ Return(p, [NoRet EXCEPT !.err = ErrWrongId])
            /\ UNCHANGED loc
    /\ UNCHANGED <<asgs, asgCache, cacheMutex, desired, obs>>

\* a mutant: a reference that resolves to no group is not an error
UnknownAsgAccepted(targetAsg) == FALSE

\* `if targetAsg == nil {`
UnknownAsg(targetAsg) == targetAsg = NoAsg

BelongsAfter(p) ==
    /\ pc[p] = "bl_after"
    /\ IF ret[p].err # ErrNil
       THEN Return(p, [NoRet EXCEPT !.err = ret[p].err])
       ELSE IF UnknownAsg(ret[p].asg)
       THEN Return(p, [NoRet EXCEPT !.err = ErrUnknown])
       ELSE IF AsgId(ret[p].asg) # AsgId(loc[p].asg)
       THEN Return(p, NoRet)
       ELSE Return(p, [NoRet EXCEPT !.ok = TRUE])
    /\ obs' = [obs EXCEPT ![p] = [LookupTaken(@) EXCEPT !.owners =
                        IF ret[p].err = ErrNil THEN @ \cup {ret[p].asg} ELSE @]]
    /\ UNCHANGED <<asgs, asgCache, cacheMutex, desired, loc>>

(***************************************************************************)
(* AwsManager.DeleteInstances                                              *)
(***************************************************************************)
DeleteInstances(p, instances) ==
    /\ p # "bg"
    /\ pc[p] = "idle"
    /\ loc' = [loc EXCEPT ![p].op = "DeleteInstances", ![p].instances = instances]
    /\ Call(p, "di", "done")
    /\ UNCHANGED <<asgs, asgCache, cacheMutex, desired, obs>>

\* if len(instances) == 0 { return nil }; GetAsgForInstance(instances[0])
DeleteInstancesStart(p) ==
    /\ pc[p] = "di"
    /\ IF Len(loc[p].instances) = 0
       THEN /\ Return(p, NoRet)
            /\ UNCHANGED loc
       ELSE /\ loc' = [loc EXCEPT ![p].instance = loc[p].instances[1]]
            /\ Call(p, "gafi", "di_common")
    /\ UNCHANGED <<asgs, asgCache, cacheMutex, desired, obs>>

\* commonAsg, err := ...; if err != nil { return err }
DeleteInstancesCommon(p) ==
    /\ pc[p] = "di_common"
    /\ IF ret[p].err # ErrNil
       THEN /\ Return(p, [NoRet EXCEPT !.err = ret[p].err])
            /\ obs' = [obs EXCEPT ![p] = LookupTaken(@)]
            /\ UNCHANGED loc
       ELSE /\ loc' = [loc EXCEPT ![p].commonAsg = ret[p].asg, ![p].i = 1]
            /\ obs' = [obs EXCEPT ![p] = [LookupTaken(@) EXCEPT
                                            !.resolved = @ \cup {ret[p].asg}]]
            /\ Goto(p, "di_loop")
    /\ UNCHANGED <<asgs, asgCache, cacheMutex, desired>>

\* the validation loop: GetAsgForInstance(instance) for each instance
DeleteInstancesLoop(p) ==
    /\ pc[p] = "di_loop"
    /\ IF loc[p].i <= Len(loc[p].instances)
       THEN /\ loc' = [loc EXCEPT ![p].instance = loc[p].instances[loc[p].i]]
            /\ Call(p, "gafi", "di_check")
       ELSE /\ loc' = [loc EXCEPT ![p].i = 1]
            /\ Goto(p, "di_term")
    /\ UNCHANGED <<asgs, asgCache, cacheMutex, desired, obs>>

\* a mutant: the comparison with commonAsg is left out
AnyAsg(a, c) == TRUE

\* asg != commonAsg is the failure
SameAsg(a, c) == a = c

DeleteInstancesCheck(p) ==
    /\ pc[p] = "di_check"
    /\ IF ret[p].err # ErrNil
       THEN /\ Return(p, [NoRet EXCEPT !.err = ret[p].err])
            /\ obs' = [obs EXCEPT ![p] = LookupTaken(@)]
            /\ UNCHANGED loc
       ELSE /\ obs' = [obs EXCEPT ![p] = [LookupTaken(@) EXCEPT
                                            !.resolved = @ \cup {ret[p].asg}]]
            /\ IF ~SameAsg(ret[p].asg, loc[p].commonAsg)
               THEN /\ Return(p, [NoRet EXCEPT !.err = ErrMixed])
                    /\ UNCHANGED loc
               ELSE /\ loc' = [loc EXCEPT ![p].i = loc[p].i + 1]
                    /\ Goto(p, "di_loop")
    /\ UNCHANGED <<asgs, asgCache, cacheMutex, desired>>

\* backend: TerminateInstanceInAutoScalingGroup with
\* ShouldDecrementDesiredCapacity can succeed for an instance of a group
\* whose desired capacity can still be lowered
CanTerminate(n) == InstAsg(n) # NoAsg /\ desired[InstAsg(n)] > 0

\* the termination loop: one TerminateInstanceInAutoScalingGroup per
\* instance, stopping at the first error
DeleteInstancesTerminate(p) ==
    /\ pc[p] = "di_term"
    /\ IF loc[p].i <= Len(loc[p].instances)
       THEN LET n == loc[p].instances[loc[p].i].Name IN
            /\ obs' = [obs EXCEPT ![p].issued = @ \cup {n}]
            /\ \/ /\ CanTerminate(n)
                  /\ desired' = [desired EXCEPT ![InstAsg(n)] = @ - 1]
                  /\ loc' = [loc EXCEPT ![p].i = loc[p].i + 1]
                  /\ UNCHANGED <<pc, stack, ret>>
               \/ /\ Return(p, [NoRet EXCEPT !.err = ErrBackend])
                  /\ UNCHANGED <<desired, loc>>
       ELSE /\ Return(p, NoRet)
            /\ UNCHANGED <<desired, loc, obs>>
    /\ UNCHANGED <<asgs, asgCache, cacheMutex>>

(***************************************************************************)
(* Asg.DeleteNodes                                                         *)
(***************************************************************************)
DeleteNodes(p, g, nodes) ==
    /\ p # "bg"
    /\ pc[p] = "idle"
    /\ loc' = [loc EXCEPT ![p].op = "DeleteNodes", ![p].asg = g, ![p].nodes = nodes]
    /\ Call(p, "dn", "done")
    /\ UNCHANGED <<asgs, asgCache, cacheMutex, desired, obs>>

\* a mutant: the size check is left out
NoMinSizeCheck(size, g) == FALSE

\* if int(size) <= asg.MinSize()
MinSizeReached(size, g) == size <= AsgMinSize(g)

\* size, err := asg.awsManager.GetAsgSize(asg) and the size check
DeleteNodesSize(p) ==
    /\ pc[p] = "dn"
    /\ \/ /\ Return(p, [NoRet EXCEPT !.err = ErrBackend])
          /\ UNCHANGED <<loc, obs>>
       \/ LET size == desired[loc[p].asg] IN
          /\ obs' = [obs EXCEPT ![p].size = size]
          /\ IF MinSizeReached(size, loc[p].asg)
             THEN /\ Return(p, [NoRet EXCEPT !.err = ErrMinSize])
                  /\ UNCHANGED loc
             ELSE /\ loc' = [loc EXCEPT ![p].j = 1, ![p].refs = <<>>]
                  /\ Goto(p, "dn_loop")
    /\ UNCHANGED <<asgs, asgCache, cacheMutex, desired>>

\* `for _, node := range nodes { belongs, err := asg.Belongs(node)`, and
\* after the loop `return asg.awsManager.DeleteInstances(refs)`
DeleteNodesLoop(p) ==
    /\ pc[p] = "dn_loop"
    /\ IF loc[p].j <= Len(loc[p].nodes)
       THEN /\ loc' = [loc EXCEPT ![p].node = loc[p].nodes[loc[p].j]]
            /\ Call(p, "bl", "dn_belongs")
       ELSE /\ loc' = [loc EXCEPT ![p].instances = loc[p].refs]
            /\ Goto(p, "di")
    /\ UNCHANGED <<asgs, asgCache, cacheMutex, desired, obs>>

\* the intended test: a node of another group is the failure
RejectForeign(belongs) == ~belongs

\* `if belongs { return fmt.Errorf("%s belong to a different asg than %s"`
RejectNode(belongs) == belongs

DeleteNodesBelongs(p) ==
    /\ pc[p] = "dn_belongs"
    /\ IF ret[p].err # ErrNil
       THEN /\ Return(p, [NoRet EXCEPT !.err = ret[p].err])
            /\ UNCHANGED loc
       ELSE IF RejectNode(ret[p].ok)
       THEN /\ Return(p, [NoRet EXCEPT !.err = ErrDifferent])
            /\ UNCHANGED loc
       ELSE /\ loc' = [loc EXCEPT ![p].refs = Append(@, AwsRefFromProviderId(loc[p].node)),
                                  ![p].j = loc[p].j + 1]
            /\ Goto(p, "dn_loop")
    /\ UNCHANGED <<asgs, asgCache, cacheMutex, desired, obs>>

(***************************************************************************)
(* The caller takes the result of a finished call and is idle again.       *)
(***************************************************************************)
Finish(p) ==
    /\ pc[p] = "done"
    /\ pc' = [pc EXCEPT ![p] = "idle"]
    /\ loc' = [loc EXCEPT ![p] = NoLoc]
    /\ obs' = [obs EXCEPT ![p] = NoObs]
    /\ ret' = [ret EXCEPT ![p] = NoRet]
    /\ UNCHANGED <<asgs, asgCache, cacheMutex, desired, stack>>

NextAws ==
    \/ \E p \in Procs : RegenerateCacheIgnoreError(p)
    \/ \E p \in Procs : RegenerateCacheIgnoreErrorDone(p)
    \/ \E p \in Procs : RegenerateCacheGroup(p)
    \/ \E p \in Procs : RegenerateCacheSwap(p)
    \/ \E p \in Procs, g \in Asgs : RegisterAsg(p, g)
    \/ \E p \in Procs : RegisterAsgBody(p)
    \/ \E p \in Procs, node \in NodeIds : NodeGroupForNode(p, node)
    \/ \E p \in Procs : GetAsgForInstanceLock(p)
    \/ \E p \in Procs : GetAsgForInstanceRead(p)
    \/ \E p \in Procs : GetAsgForInstanceAfter(p)
    \/ \E p \in Procs, g \in Asgs, node \in NodeIds : Belongs(p, g, node)
    \/ \E p \in Procs : BelongsStart(p)
    \/ \E p \in Procs : BelongsAfter(p)
    \/ \E p \in Procs, instances \in RefLists : DeleteInstances(p, instances)
    \/ \E p \in Procs : DeleteInstancesStart(p)
    \/ \E p \in Procs : DeleteInstancesCommon(p)
    \/ \E p \in Procs : DeleteInstancesLoop(p)
    \/ \E p \in Procs : DeleteInstancesCheck(p)
    \/ \E p \in Procs : DeleteInstancesTerminate(p)
    \/ \E p \in Procs, g \in Asgs, nodes \in NodeLists : DeleteNodes(p, g, nodes)
    \/ \E p \in Procs : DeleteNodesSize(p)
    \/ \E p \in Procs : DeleteNodesLoop(p)
    \/ \E p \in Procs : DeleteNodesBelongs(p)
    \/ \E p \in Procs : Finish(p)

(***************************************************************************)
(* Properties of the membership cache.                                     *)
(***************************************************************************)
\* the positions right after regenerateCache returned, mutex still held
AfterRefresh(p) == pc[p] \in {"gafi_after", "ie_after"}

\* C1: a refresh is all-or-nothing. While a refresh runs, and after it
\* failed on some backend call, m.asgCache is the map the refresh started
\* from; the map is replaced only by a refresh in which every registered
\* group (and every member) was described without error.
C1_RefreshAllOrNothing ==
    \A p \in Procs :
        /\ (pc[p] = "rc_loop" /\ obs[p].refresh = "running")
                => asgCache = obs[p].oldCache
        /\ (AfterRefresh(p) /\ obs[p].refresh = "failed")
                => asgCache = obs[p].oldCache
        /\ (AfterRefresh(p) /\ asgCache # obs[p].oldCache)
                => /\ obs[p].refresh = "ok"
                   /\ Len(obs[p].listed) = Len(asgs)
                   /\ \A k \in 1..Len(asgs) : obs[p].listed[k].asg = asgs[k]

\* a refresh described a group and one of its members, then failed, and the
\* member is still absent from the map
C1_Witness ==
    \E p \in Procs :
        /\ AfterRefresh(p)
        /\ obs[p].refresh = "failed"
        /\ Len(obs[p].listed) >= 1
        /\ \E n \in Names :
              /\ InstAsg(n) = obs[p].listed[1].asg
              /\ asgCache[AwsRef(InstZone(n), n)] = NoAsg

\* the positions between m.cacheMutex.Lock() and the deferred Unlock
InCriticalSection(p) ==
    pc[p] \in {"gafi_read", "rc_loop", "gafi_after", "ie_after", "ra_body"}

\* C2: accesses to the membership map are mutually exclusive. A goroutine
\* reading, rebuilding or swapping the map (or appending to m.asgs) holds
\* cacheMutex, and no two goroutines are in such a section at once: no two
\* refreshes overlap, and no refresh overlaps a lookup.
C2_MutualExclusion ==
    /\ \A p \in Procs : InCriticalSection(p) => cacheMutex = p
    /\ \A p, q \in Procs :
          (p # q /\ InCriticalSection(p)) => ~InCriticalSection(q)

\* the background refresh is rebuilding the map while a lookup waits for
\* the mutex
C2_Witness ==
    /\ pc["bg"] = "rc_loop"
    /\ loc["bg"].rcIdx = 2
    /\ pc["c1"] = "gafi"

(***************************************************************************)
(* Properties of the lookup.                                               *)
(***************************************************************************)
\* GetAsgForInstance has just returned to its caller
LookupReturned(p) ==
    \/ pc[p] \in {"bl_after", "di_common", "di_check"}
    \/ pc[p] = "done" /\ loc[p].op = "NodeGroupForNode" /\ ProviderIdOk(loc[p].node)

\* C8: a lookup refreshes exactly once when the reference misses the map
\* and a registered group lies in the reference's zone, and otherwise (a
\* hit, or a miss in a zone of no registered group) it neither refreshes nor
\* calls the backend.
C8_RefreshOnMissInZone ==
    \A p \in Procs :
        LookupReturned(p) =>
            /\ obs[p].refreshes = (IF ~obs[p].hit /\ obs[p].zoneMatch THEN 1 ELSE 0)
            /\ (obs[p].refreshes = 0 => (~obs[p].described /\ obs[p].refresh = "none"))

\* a miss in a zone that two registered groups share, answered after one
\* refresh
C8_Witness ==
    \E p \in Procs :
        /\ LookupReturned(p)
        /\ Len(asgs) = 2
        /\ AsgZone(asgs[1]) = AsgZone(asgs[2])
        /\ ~obs[p].hit
        /\ obs[p].zoneMatch
        /\ obs[p].refreshes = 1

\* C9 as stated: a reference that is in no group after a successful forced
\* refresh gives (no group, no error).
C9_MissAfterRefreshIsNotAnError ==
    \A p \in Procs :
        (LookupReturned(p) /\ obs[p].refresh = "ok" /\ ret[p].asg = NoAsg)
            => ret[p].err = ErrNil

\* C9 amended: after a successful forced refresh a reference in no group
\* gives no group and the error "does not belong to any configured ASG";
\* a failed refresh gives no group and the different error "Error while
\* looking for ASG", with the map as it was; (no group, no error) is the
\* answer exactly for a miss in a zone of no registered group, without a
\* refresh.
C9_MissAfterRefreshIsAnError ==
    \A p \in Procs :
        /\ (pc[p] = "gafi_after" /\ obs[p].refresh = "failed")
                => asgCache = obs[p].oldCache
        /\ LookupReturned(p) =>
            /\ (obs[p].refresh = "ok" /\ ret[p].asg = NoAsg)
                    => ret[p].err = ErrNotConfigured
            /\ obs[p].refresh = "failed"
                    => (ret[p].asg = NoAsg /\ ret[p].err = ErrLookup)
            /\ (ret[p].asg = NoAsg /\ ret[p].err = ErrNil)
                    <=> (~obs[p].hit /\ obs[p].refreshes = 0)

\* a lookup whose forced refresh succeeded and still found no group
C9_Witness ==
    \E p \in Procs :
        /\ LookupReturned(p)
        /\ obs[p].refresh = "ok"
        /\ ret[p].asg = NoAsg
        /\ ret[p].err = ErrNotConfigured

\* the backend listed instance r.Name, running in zone r.Zone, in the k-th
\* answer of the refresh
ListedAt(p, k, r) ==
    /\ \E m \in 1..Len(obs[p].listed[k].names) : obs[p].listed[k].names[m] = r.Name
    /\ InstZone(r.Name) = r.Zone

C5_DeleteNodesOnlyOwnNodes ==
    \A p \in Procs :
        loc[p].op = "DeleteNodes" =>
            /\ obs[p].issued # {} => obs[p].owners \subseteq {loc[p].asg}
            /\ (pc[p] = "done" /\ obs[p].owners \ {loc[p].asg, NoAsg} # {})
                    => (ret[p].err # ErrNil /\ obs[p].issued = {})
            /\ (pc[p] = "done" /\ obs[p].owners = {loc[p].asg})
                    => ret[p].err # ErrDifferent

C7_MixedGroupsDeleteNothing ==
    \A p \in Procs :
        /\ obs[p].issued # {} => Cardinality(obs[p].resolved) = 1
        /\ Cardinality(obs[p].resolved \ {NoAsg}) >= 2 =>
              /\ obs[p].issued = {}
              /\ pc[p] = "done"
              /\ ret[p].err = ErrMixed

\* DeleteInstances of one instance of A and one of B has failed
C7_Witness ==
    \E p \in Procs :
        /\ loc[p].op = "DeleteInstances"
        /\ pc[p] = "done"
        /\ Len(loc[p].instances) = 2
        /\ obs[p].resolved = {"A", "B"}
        /\ ret[p].err = ErrMixed
        /\ obs[p].issued = {}

(***************************************************************************)
(* The scale-up cycle (scale_up.go) over GCE node groups (gce.go).         *)
(***************************************************************************)
\* config.MigConfig values, and the nil *ExpansionOption
Migs == {"X", "Y"}
NoOption == [mig |-> "nil", sampleNode |-> "nil", fitting |-> <<>>]
\* migConfig.MaxSize
MigMaxSize(g) == IF g = "X" THEN 1 ELSE 3
\* migConfig.MinSize
MigMinSize(g) == 1

\* the observed nodes and the group GetMigForInstance gives for each
ObservedNodes == {"n1", "n2", "n3"}
NodeMig(n) == IF n = "n2" THEN "Y" ELSE "X"
ObservedLists == SeqsUpTo(ObservedNodes, MaxObserved)

\* the pending pods, their requests, and the capacity of a sample node
Pods == 1..NumPods
PodCpu(pod) == IF pod = 2 THEN 1 ELSE 2
NodeCpu == 2
\* a pod list holds each of its pods once, in ascending order
RECURSIVE Ascending(_)
Ascending(S) ==
    IF S = {} THEN <<>>
    ELSE LET x == CHOOSE y \in S : \A z \in S : y <= z
         IN <<x>> \o Ascending(S \ {x})
PodLists == {Ascending(S) : S \in SUBSET Pods}

\* besides the locals of ScaleUp, the history of the cycle: the events
\* recorded, the SetSize calls made, the sizes before the cycle, the kinds of
\* calls made to the provider, the simulator and the predicate checker, the
\* groups asked IsScaleUpPossible (in order) and those skipped, the outcome
\* of each CheckPredicates, and the call whose error ended the cycle
SuIdle == [pc |-> "idle", pods |-> <<>>, nodes |-> <<>>, nodeGroups |-> <<>>,
           gi |-> 0, pi |-> 0, option |-> NoOption, helps |-> FALSE,
           expansionOptions |-> <<>>, remain |-> {}, best |-> NoOption,
           estimate |-> 0, currentSize |-> 0, newSize |-> 0,
           scaled |-> FALSE, err |-> ErrNil,
           events |-> {}, setCalls |-> <<>>, before |-> [g \in Migs |-> 0],
           calls |-> {}, asked |-> <<>>, skipped |-> {}, checks |-> {},
           failedAt |-> "none"]

InitScaleUp ==
    /\ migSize \in [Migs -> 0..MaxInitSize]
    /\ su = SuIdle

\* return (scaled, err)
SuReturn(s, scaled, err) == [s EXCEPT !.pc = "done", !.scaled = scaled, !.err = err]

\* a mutant: the early return is left out
NeverNoPods(pods) == FALSE

\* len(unschedulablePods) == 0
NoPods(pods) == Len(pods) = 0

\* if len(unschedulablePods) == 0 { return false, nil }
ScaleUpStart(pods, nodes) ==
    /\ su.pc = "idle"
    /\ LET s == [su EXCEPT !.pods = pods, !.nodes = nodes, !.before = migSize] IN
       su' = IF NoPods(pods) THEN SuReturn(s, FALSE, ErrNil)
             ELSE [s EXCEPT !.pc = "groups"]
    /\ UNCHANGED migSize

\* GceProvider.GetNodeGroups: one group per distinct MigConfig, in order of
\* first occurrence, with the first node seen as its sample node
RECURSIVE GetNodeGroups(_, _, _)
GetNodeGroups(nodes, k, nodeGroups) ==
    IF k > Len(nodes) THEN nodeGroups
    ELSE LET mig == NodeMig(nodes[k]) IN
         IF \E m \in 1..Len(nodeGroups) : nodeGroups[m].mig = mig
         THEN GetNodeGroups(nodes, k + 1, nodeGroups)
         ELSE GetNodeGroups(nodes, k + 1,
                 Append(nodeGroups, [mig |-> mig, sampleNode |-> nodes[k], fitting |-> <<>>]))

\* nodeGroups, err := provider.GetNodeGroups(nodes): resolving a node can
\* fail, and then the cycle returns the error
ScaleUpGetNodeGroups ==
    /\ su.pc = "groups"
    /\ LET s == [su EXCEPT !.calls = @ \cup {"GetNodeGroups"}] IN
       \/ /\ Len(su.nodes) > 0
          /\ su' = SuReturn([s EXCEPT !.failedAt = "GetNodeGroups"], FALSE, ErrBackend)
       \/ su' = [s EXCEPT !.pc = "group", !.gi = 1, !.nodes = <<>>,
                          !.nodeGroups = GetNodeGroups(su.nodes, 1, <<>>)]
    /\ UNCHANGED migSize

\* gceNodeGroup.IsScaleUpPossible: currentSize >= MaxSize is "no"
IsScaleUpPossible(currentSize, g) == ~(currentSize >= MigMaxSize(g))

\* a mutant: a group that cannot be asked ends the cycle
AbortOnGroup(s, mig) == SuReturn([s EXCEPT !.failedAt = "IsScaleUpPossible"], FALSE, ErrBackend)

\* `continue`: on to the next group
SkipGroup(s, mig) == [s EXCEPT !.gi = s.gi + 1, !.skipped = @ \cup {mig}]

\* the head of `for _, nodeGroup := range nodeGroups`: IsScaleUpPossible,
\* whose GetMigSize can fail; an error or a "no" skips the group
ScaleUpGroup ==
    /\ su.pc = "group"
    /\ IF su.gi > Len(su.nodeGroups)
       THEN su' = [su EXCEPT !.pc = "pick"]
       ELSE LET g == su.nodeGroups[su.gi]
                s == [su EXCEPT !.calls = @ \cup {"GetMigSize"},
                                !.asked = Append(@, g.mig)]
            IN \/ su' = SkipGroup(s, g.mig)
               \/ su' = IF IsScaleUpPossible(migSize[g.mig], g.mig)
                        THEN [s EXCEPT !.pc = "pods", !.pi = 1, !.helps = FALSE,
                                       !.option = g]
                        ELSE SkipGroup(s, g.mig)
    /\ UNCHANGED migSize

\* a mutant: the option is put in front of the list
PrependOption(expansionOptions, option) == <<option>> \o expansionOptions

\* expansionOptions = append(expansionOptions, option)
KeepOption(expansionOptions, option) == Append(expansionOptions, option)

\* the body of `for _, pod := range unschedulablePods`: BuildNodeInfoForNode
\* can fail (continue); CheckPredicates passes or fails, and can pass only
\* a pod whose request the sample node can hold; after the last pod the
\* option is kept if it helps some pod
ScaleUpPod ==
    /\ su.pc = "pods"
    /\ IF su.pi > Len(su.pods)
       THEN su' = [su EXCEPT !.pc = "group", !.gi = su.gi + 1,
                             !.option = NoOption, !.helps = FALSE, !.pi = 0,
                             !.expansionOptions =
                                 IF su.helps THEN KeepOption(@, su.option) ELSE @]
       ELSE LET pod == su.pods[su.pi]
                mig == su.option.mig
                s == [su EXCEPT !.pi = su.pi + 1,
                                !.calls = @ \cup {"BuildNodeInfoForNode"}]
                checked == [s EXCEPT !.calls = @ \cup {"CheckPredicates"}]
            IN \/ su' = s
               \/ /\ PodCpu(pod) <= NodeCpu
                  /\ su' = [checked EXCEPT !.helps = TRUE,
                                !.option.fitting = Append(@, pod),
                                !.checks = @ \cup {[pod |-> pod, mig |-> mig, ok |-> TRUE]}]
               \/ su' = [checked EXCEPT !.remain = @ \cup {pod},
                                !.checks = @ \cup {[pod |-> pod, mig |-> mig, ok |-> FALSE]}]
    /\ UNCHANGED migSize

\* BestExpansionOption: the first option whose estimator holds a pod
BestExpansionOption(expansionOptions) ==
    IF \E k \in 1..Len(expansionOptions) : Len(expansionOptions[k].fitting) > 0
    THEN expansionOptions[CHOOSE k \in 1..Len(expansionOptions) :
             /\ Len(expansionOptions[k].fitting) > 0
             /\ \A m \in 1..(k - 1) : Len(expansionOptions[m].fitting) = 0]
    ELSE NoOption

\* BasicNodeEstimator: first-fit packing of the pods, in the order they
\* were added, into bins of the sample node's capacity; bins holds the
\* capacity left in each open bin
RECURSIVE FirstFit(_, _, _)
FirstFit(fitting, k, bins) ==
    IF k > Len(fitting) THEN bins
    ELSE LET c == PodCpu(fitting[k]) IN
         IF \E b \in 1..Len(bins) : bins[b] >= c
         THEN LET b == CHOOSE b \in 1..Len(bins) :
                          /\ bins[b] >= c
                          /\ \A a \in 1..(b - 1) : bins[a] < c
              IN FirstFit(fitting, k + 1, [bins EXCEPT ![b] = @ - c])
         ELSE FirstFit(fitting, k + 1, Append(bins, NodeCpu - c))

\* estimator.Estimate(node): the number of bins opened
Estimate(fitting) == Len(FirstFit(fitting, 1, <<>>))

\* a mutant: every pending pod gets the "no scale-up" event
NotTriggeredEventsAll(remain) ==
    {[type |-> "NotTriggerScaleUp", pod |-> su.pods[k], mig |-> "nil",
      current |-> 0, new |-> 0] : k \in 1..Len(su.pods)}

\* recorder.Event(pod, "NotTriggerScaleUp") for each pod of podsRemainUnshedulable
NotTriggeredEvents(remain) ==
    {[type |-> "NotTriggerScaleUp", pod |-> pod, mig |-> "nil",
      current |-> 0, new |-> 0] : pod \in remain}

\* recorder.Eventf(pod, "TriggeredScaleUp", ... currentSize, newSize) for
\* each pod of FittingPods
TriggeredEvents(option, currentSize, newSize) ==
    {[type |-> "TriggeredScaleUp", pod |-> option.fitting[k], mig |-> option.mig,
      current |-> currentSize, new |-> newSize] : k \in 1..Len(option.fitting)}

\* bestOption := BestExpansionOption(expansionOptions); with an option,
\* BuildNodeInfoForNode (which can fail) and the estimate; without one, the
\* "no scale-up" events and (false, nil)
ScaleUpPick ==
    /\ su.pc = "pick"
    /\ LET bestOption == BestExpansionOption(su.expansionOptions) IN
       IF bestOption # NoOption /\ Len(bestOption.fitting) > 0
       THEN LET s == [su EXCEPT !.best = bestOption,
                                !.calls = @ \cup {"BuildNodeInfoForNode"}]
            IN \/ su' = SuReturn([s EXCEPT !.failedAt = "BuildNodeInfoForNode"],
                                 FALSE, ErrBackend)
               \/ su' = [s EXCEPT !.pc = "size",
                                  !.estimate = Estimate(bestOption.fitting)]
       ELSE su' = SuReturn([su EXCEPT !.events = @ \cup NotTriggeredEvents(su.remain)],
                           FALSE, ErrNil)
    /\ UNCHANGED migSize

\* currentSize, err := bestOption.nodeGroup.GetCurrentSize();
\* newSize := currentSize + estimate
ScaleUpGetCurrentSize ==
    /\ su.pc = "size"
    /\ LET s == [su EXCEPT !.calls = @ \cup {"GetMigSize"}] IN
       \/ su' = SuReturn([s EXCEPT !.failedAt = "GetCurrentSize"], FALSE, ErrBackend)
       \/ su' = [s EXCEPT !.pc = "set", !.currentSize = migSize[su.best.mig],
                          !.newSize = migSize[su.best.mig] + su.estimate]
    /\ UNCHANGED migSize

\* a mutant: the cycle passes currentSize + estimate to SetSize
ResizeTargetRelative(currentSize, estimate) == currentSize + estimate

\* bestOption.nodeGroup.SetSize(estimate)
ResizeTarget(currentSize, estimate) == estimate

\* a mutant: SetSize without the cap
SetSizeUncapped(size, g) == size

\* gceNodeGroup.SetSize: if size >= MaxSize { size = MaxSize }; the value
\* handed to SetMigSize
SetSizeCapped(size, g) == IF size >= MigMaxSize(g) THEN MigMaxSize(g) ELSE size

\* the "triggered scale-up" event of each fitting pod, then return true, nil
SetSizeDone(s) ==
    SuReturn([s EXCEPT !.events = @ \cup
                 TriggeredEvents(s.best, s.currentSize, s.newSize)], TRUE, ErrNil)

\* a mutant: the error of SetSize is dropped
SetSizeFailedIgnored(s) == SetSizeDone(s)

\* if err = bestOption.nodeGroup.SetSize(estimate); err != nil { return false, err }
SetSizeFailed(s) == SuReturn(s, FALSE, ErrBackend)

\* SetSize, whose SetMigSize can fail; then the "triggered scale-up" events
\* and (true, nil)
ScaleUpSetSize ==
    /\ su.pc = "set"
    /\ LET g == su.best.mig
           size == SetSizeCapped(ResizeTarget(su.currentSize, su.estimate), g)
           called == [su EXCEPT !.setCalls = Append(@, [mig |-> g, size |-> size]),
                                !.calls = @ \cup {"SetMigSize"}]
       IN \/ /\ su' = SetSizeFailed([called EXCEPT !.failedAt = "SetSize"])
             /\ UNCHANGED migSize
          \/ /\ migSize' = [migSize EXCEPT ![g] = size]
             /\ su' = SetSizeDone(called)

\* the cycle's caller takes the result
ScaleUpFinish ==
    /\ su.pc = "done"
    /\ su' = SuIdle
    /\ UNCHANGED migSize

NextScaleUp ==
    \/ \E pods \in PodLists, nodes \in ObservedLists : ScaleUpStart(pods, nodes)
    \/ ScaleUpGetNodeGroups
    \/ ScaleUpGroup
    \/ ScaleUpPod
    \/ ScaleUpPick
    \/ ScaleUpGetCurrentSize
    \/ ScaleUpSetSize
    \/ ScaleUpFinish

(***************************************************************************)
(* Direct calls of the size operations: Asg.IncreaseSize over              *)
(* AwsManager.GetAsgSize / SetAsgSize, and gceNodeGroup.SetSize. None of   *)
(* them takes a lock.                                                      *)
(***************************************************************************)
\* the goroutines calling the size operations
Callers == {"c1", "c2"}
Deltas == (0 - 1)..MaxDelta
Requests == 0..MaxRequest

ErrPositive == "size increase must be positive"
ErrTooLarge == "size increase to large"
ErrSetMig == "failed to set MIG size"

\* a caller's call: its arguments, the size it read (-1: none), the size it
\* handed to the backend (-1: none), how the backend call that decided the
\* result went, and the error returned
NgCallIdle == [pc |-> "idle", op |-> "none", group |-> "nil", arg |-> 0,
               size |-> 0 - 1, wrote |-> 0 - 1, backend |-> "none", err |-> ErrNil]
\* granted: the sum of the deltas of the IncreaseSize calls that returned nil
NgIdle == [call |-> [c \in Callers |-> NgCallIdle],
           granted |-> [g \in Asgs |-> 0]]

\* DesiredCapacity of each group before the first call
InitDesired == [g \in Asgs |-> IF g = "A" THEN 0 ELSE 1]

\* a mutant: only a negative delta is refused
DeltaNegative(delta) == delta < 0

\* if delta <= 0 { return fmt.Errorf("size increase must be positive") }
DeltaRejected(delta) == delta <= 0

\* Asg.IncreaseSize(delta): the check of delta
IncreaseSize(c, g, delta) ==
    /\ ng.call[c].pc = "idle"
    /\ LET k == [NgCallIdle EXCEPT !.op = "IncreaseSize", !.group = g, !.arg = delta]
       IN ng' = [ng EXCEPT !.call[c] =
                    IF DeltaRejected(delta)
                    THEN [k EXCEPT !.pc = "done", !.err = ErrPositive]
                    ELSE [k EXCEPT !.pc = "is_get"]]
    /\ UNCHANGED <<desired, migSize>>

\* if int(size)+delta > asg.MaxSize()
TooLarge(size, delta, g) == size + delta > AsgMaxSize(g)

\* size, err := asg.awsManager.GetAsgSize(asg), which can fail, and the
\* check against MaxSize
IncreaseSizeGet(c) ==
    /\ ng.call[c].pc = "is_get"
    /\ LET k == ng.call[c] IN
       \/ ng' = [ng EXCEPT !.call[c] =
                    [k EXCEPT !.pc = "done", !.backend = "failed", !.err = ErrBackend]]
       \/ LET size == desired[k.group] IN
          ng' = [ng EXCEPT !.call[c] =
                    IF TooLarge(size, k.arg, k.group)
                    THEN [k EXCEPT !.pc = "done", !.size = size, !.err = ErrTooLarge]
                    ELSE [k EXCEPT !.pc = "is_set", !.size = size]]
    /\ UNCHANGED <<desired, migSize>>

\* return asg.awsManager.SetAsgSize(asg, size+int64(delta)):
\* SetDesiredCapacity, which can fail
IncreaseSizeSet(c) ==
    /\ ng.call[c].pc = "is_set"
    /\ LET k == ng.call[c]
           size == k.size + k.arg
       IN \/ /\ ng' = [ng EXCEPT !.call[c] =
                        [k EXCEPT !.pc = "done", !.wrote = size,
                                  !.backend = "failed", !.err = ErrBackend]]
             /\ UNCHANGED desired
          \/ /\ desired' = [desired EXCEPT ![k.group] = size]
             /\ ng' = [ng EXCEPT !.call[c] =
                        [k EXCEPT !.pc = "done", !.wrote = size, !.backend = "ok"],
                                !.granted[k.group] = @ + k.arg]
    /\ UNCHANGED migSize

\* gceNodeGroup.SetSize(size): the cap, then SetMigSize, which can fail
SetSize(c, g, size) ==
    /\ ng.call[c].pc = "idle"
    /\ LET capped == SetSizeCapped(size, g)
           k == [NgCallIdle EXCEPT !.op = "SetSize", !.group = g, !.arg = size,
                                   !.wrote = capped, !.pc = "done"]
       IN \/ /\ ng' = [ng EXCEPT !.call[c] =
                        [k EXCEPT !.backend = "failed", !.err = ErrSetMig]]
             /\ UNCHANGED migSize
          \/ /\ migSize' = [migSize EXCEPT ![g] = capped]
             /\ ng' = [ng EXCEPT !.call[c] = [k EXCEPT !.backend = "ok"]]
    /\ UNCHANGED desired

\* the caller takes the result
NgFinish(c) ==
    /\ ng.call[c].pc = "done"
    /\ ng' = [ng EXCEPT !.call[c] = NgCallIdle]
    /\ UNCHANGED <<desired, migSize>>

NextSizeOps ==
    \/ \E c \in Callers, g \in Asgs, delta \in Deltas : IncreaseSize(c, g, delta)
    \/ \E c \in Callers : IncreaseSizeGet(c)
    \/ \E c \in Callers : IncreaseSizeSet(c)
    \/ \E c \in Callers : NgFinish(c)

NextSetSizeOps ==
    \/ \E c \in Callers, g \in Migs, size \in Requests : SetSize(c, g, size)
    \/ \E c \in Callers : NgFinish(c)

(***************************************************************************)
(* buildAsg, addNodeGroup and BuildAwsCloudProvider. A spec string is the  *)
(* sequence of its characters.                                             *)
(***************************************************************************)
SpecChars == {"0", "1", "2", "-", ":", "a"}
RECURSIVE StringsOfLen(_)
StringsOfLen(n) ==
    IF n = 0 THEN {<<>>}
    ELSE {Append(t, ch) : t \in StringsOfLen(n - 1), ch \in SpecChars}
\* the spec strings handed to buildAsg
SpecStrings == UNION {StringsOfLen(n) : n \in 0..MaxSpecLen}

\* the spec strings handed to BuildAwsCloudProvider: "1:2:a", "1:1:b",
\* "0:2:b", "2:1:a" and "a"
BuildSpecs == {<<"1", ":", "2", ":", "a">>, <<"1", ":", "1", ":", "b">>,
               <<"0", ":", "2", ":", "b">>, <<"2", ":", "1", ":", "a">>, <<"a">>}
SpecLists == SeqsUpTo(BuildSpecs, MaxSpecs)

ErrWrongConfig == "wrong nodes configuration"
ErrMinInteger == "failed to set min size, expected integer"
ErrMinBelowOne == "min size must be >= 1"
ErrMaxInteger == "failed to set max size, expected integer"
ErrMaxBelowMin == "max size must be greater or equal to min size"
ErrAsgUrl == "failed to parse asg url"

\* strings.SplitN(value, ":", n): at most n parts, the last one taking the
\* rest of the string with its separators
RECURSIVE SplitN(_, _)
SplitN(value, n) ==
    IF n <= 1 \/ \A k \in 1..Len(value) : value[k] # ":"
    THEN <<value>>
    ELSE LET k == CHOOSE i \in 1..Len(value) :
                    /\ value[i] = ":"
                    /\ \A j \in 1..(i - 1) : value[j] # ":"
         IN <<SubSeq(value, 1, k - 1)>> \o SplitN(SubSeq(value, k + 1, Len(value)), n - 1)

\* strconv.Atoi: an optional sign, then one or more decimal digits
Digits == <<"0", "1", "2", "3", "4", "5", "6", "7", "8", "9">>
IsDigit(ch) == \E d \in 1..10 : Digits[d] = ch
DigitValue(ch) == (CHOOSE d \in 1..10 : Digits[d] = ch) - 1
Unsigned(tok) == IF Len(tok) > 0 /\ tok[1] \in {"-", "+"} THEN Tail(tok) ELSE tok
AtoiOk(tok) ==
    /\ Len(Unsigned(tok)) > 0
    /\ \A k \in 1..Len(Unsigned(tok)) : IsDigit(Unsigned(tok)[k])
RECURSIVE DecimalValue(_)
DecimalValue(digits) ==
    IF Len(digits) = 0 THEN 0
    ELSE 10 * DecimalValue(SubSeq(digits, 1, Len(digits) - 1))
            + DigitValue(digits[Len(digits)])
Atoi(tok) ==
    IF tok[1] = "-" THEN 0 - DecimalValue(Unsigned(tok)) ELSE DecimalValue(Unsigned(tok))

\* a mutant: a min size of zero is let through
MinNegative(size) == size < 0

\* if size <= 0 { return nil, fmt.Errorf("min size must be >= 1") }
MinTooSmall(size) == size <= 0

\* the *Asg (or nil) and the error of buildAsg
NoBuilt == [err |-> ErrNil, minSize |-> 0, maxSize |-> 0, url |-> <<>>]
Rejected(err) == [NoBuilt EXCEPT !.err = err]

\* buildAsg(value); urlOk: whether ParseAsgUrl accepts the third field
BuildAsgResult(value, urlOk) ==
    LET tokens == SplitN(value, 3) IN
    IF Len(tokens) # 3 THEN Rejected(ErrWrongConfig)
    ELSE IF ~AtoiOk(tokens[1]) THEN Rejected(ErrMinInteger)
    ELSE IF MinTooSmall(Atoi(tokens[1])) THEN Rejected(ErrMinBelowOne)
    ELSE IF ~AtoiOk(tokens[2]) THEN Rejected(ErrMaxInteger)
    ELSE IF Atoi(tokens[2]) < Atoi(tokens[1]) THEN Rejected(ErrMaxBelowMin)
    ELSE IF ~urlOk THEN Rejected(ErrAsgUrl)
    ELSE [err |-> ErrNil, minSize |-> Atoi(tokens[1]), maxSize |-> Atoi(tokens[2]),
          url |-> tokens[3]]

\* the group a url names
GroupOfUrl(url) == IF url = <<"a">> THEN "A" ELSE IF url = <<"b">> THEN "B" ELSE NoAsg

\* no construction running; asgs is aws.asgs, provider tells whether a
\* provider was returned, urlOk is the last answer of ParseAsgUrl
BldIdle == [pc |-> "idle", op |-> "none", specs |-> <<>>, i |-> 0,
            value |-> <<>>, urlOk |-> FALSE, built |-> NoBuilt,
            asgs |-> <<>>, provider |-> FALSE, err |-> ErrNil]

\* one call of buildAsg; ParseAsgUrl can accept or refuse the third field
BuildAsg(value) ==
    /\ bld.pc = "idle"
    /\ \E urlOk \in BOOLEAN :
        LET built == BuildAsgResult(value, urlOk) IN
        bld' = [bld EXCEPT !.pc = "done", !.op = "buildAsg", !.value = value,
                           !.urlOk = urlOk, !.built = built, !.err = built.err]
    /\ UNCHANGED asgs

\* BuildAwsCloudProvider(awsManager, specs) on a manager just created
BuildAwsCloudProvider(specs) ==
    /\ bld.pc = "idle"
    /\ asgs = <<>>
    /\ bld' = [bld EXCEPT !.pc = "add", !.op = "BuildAwsCloudProvider",
                          !.specs = specs, !.i = 1]
    /\ UNCHANGED asgs

\* one iteration of `for _, spec := range specs`: addNodeGroup(spec), which
\* builds the group, appends it to aws.asgs and registers it with the
\* manager (RegisterAsg, the mutex being free); after the last spec the
\* provider is returned
AddNodeGroup ==
    /\ bld.pc = "add"
    /\ IF bld.i > Len(bld.specs)
       THEN /\ bld' = [bld EXCEPT !.pc = "done", !.provider = TRUE]
            /\ UNCHANGED asgs
       ELSE \E urlOk \in BOOLEAN :
            LET built == BuildAsgResult(bld.specs[bld.i], urlOk) IN
            IF built.err # ErrNil
            THEN /\ bld' = [bld EXCEPT !.pc = "done", !.err = built.err,
                                       !.urlOk = urlOk]
                 /\ UNCHANGED asgs
            ELSE /\ bld' = [bld EXCEPT !.i = bld.i + 1, !.urlOk = urlOk,
                                       !.asgs = Append(@,
                                           [asg |-> GroupOfUrl(built.url),
                                            minSize |-> built.minSize,
                                            maxSize |-> built.maxSize])]
                 /\ asgs' = Append(asgs, GroupOfUrl(built.url))

\* the caller takes the result
BldFinish ==
    /\ bld.pc = "done"
    /\ bld' = BldIdle
    /\ UNCHANGED asgs

NextParseOps ==
    \/ bld.pc = "idle" /\ \E value \in SpecStrings : BuildAsg(value)
    \/ BldFinish

NextBuildOps ==
    \/ \E specs \in SpecLists : BuildAwsCloudProvider(specs)
    \/ AddNodeGroup
    \/ BldFinish

(***************************************************************************)
(* GceProvider.GetNodeGroups, called on a list of observed nodes.          *)
(***************************************************************************)
\* the nil *config.MigConfig
NoMig == "nil"

\* the nodes a cluster shows: the members of the groups, a node that is a
\* member of no group, and a node whose provider id does not parse
UnmanagedNode == "n4"
MalformedNode == "n5"
ClusterNodes == ObservedNodes \cup {UnmanagedNode, MalformedNode}
ClusterLists == SeqsUpTo(ClusterNodes, MaxResolved)

\* config.InstanceConfigFromProviderId(node.Spec.ProviderID) gives no error
InstanceConfigOk(node) == node # MalformedNode

\* what Manager.GetMigForInstance gives when it does not fail: the group of
\* the instance, or nil for an instance of no configured group
GetMigForInstance(node) == IF node \in ObservedNodes THEN NodeMig(node) ELSE NoMig

\* besides the locals of GetNodeGroups, the returned list and error
GnIdle == [pc |-> "idle", nodes |-> <<>>, k |-> 0, migConfigs |-> {},
           nodeGroups |-> <<>>, out |-> <<>>, err |-> ErrNil]

\* return (nodeGroups, err)
GnReturn(nodeGroups, err) == [gn EXCEPT !.pc = "done", !.out = nodeGroups, !.err = err]

\* migConfigs := make(map[*config.MigConfig]bool); nodeGroups := []provider.NodeGroup{}
GetNodeGroupsCall(nodes) ==
    /\ gn.pc = "idle"
    /\ gn' = [GnIdle EXCEPT !.pc = "loop", !.nodes = nodes, !.k = 1]

\* `if !migConfigs[migConfig] {`: the group is appended with this node as
\* its sample node
AppendNodeGroup(g, migConfig, node) ==
    IF migConfig \notin g.migConfigs
    THEN [g EXCEPT !.migConfigs = @ \cup {migConfig},
                   !.nodeGroups = Append(@, [mig |-> migConfig, sampleNode |-> node])]
    ELSE g

\* one turn of `for _, node := range nodes`: either call can fail, and then
\* an empty list is returned with the error
GetNodeGroupsNode ==
    /\ gn.pc = "loop"
    /\ gn.k <= Len(gn.nodes)
    /\ LET node == gn.nodes[gn.k] IN
       IF ~InstanceConfigOk(node)
       THEN gn' = GnReturn(<<>>, ErrWrongId)
       ELSE \/ gn' = GnReturn(<<>>, ErrBackend)
            \/ gn' = [AppendNodeGroup(gn, GetMigForInstance(node), node) EXCEPT !.k = @ + 1]

\* return nodeGroups, nil
GetNodeGroupsReturn ==
    /\ gn.pc = "loop"
    /\ gn.k > Len(gn.nodes)
    /\ gn' = GnReturn(gn.nodeGroups, ErrNil)

\* the caller takes the result
GnFinish ==
    /\ gn.pc = "done"
    /\ gn' = GnIdle

NextGetNodeGroupsOps ==
    \/ \E nodes \in ClusterLists : GetNodeGroupsCall(nodes)
    \/ GetNodeGroupsNode
    \/ GetNodeGroupsReturn
    \/ GnFinish

(***************************************************************************)
(* Specifications.                                                         *)
(***************************************************************************)
\* the AWS manager and node group, with the background refresh
Init ==
    /\ InitAws
    /\ migSize = [g \in Migs |-> 0]
    /\ su = SuIdle
    /\ ng = NgIdle
    /\ bld = BldIdle
    /\ gn = GnIdle
Next == NextAws /\ UNCHANGED <<suVars, ng, bld, gn>>
Spec == Init /\ [][Next]_vars

\* Belongs on the registered groups, with the background refresh
NextBelongsOps ==
    \/ \E p \in Procs : RegenerateCacheIgnoreError(p)
    \/ \E p \in Procs : RegenerateCacheIgnoreErrorDone(p)
    \/ \E p \in Procs : RegenerateCacheGroup(p)
    \/ \E p \in Procs : RegenerateCacheSwap(p)
    \/ \E p \in Procs, g \in Asgs : RegisterAsg(p, g)
    \/ \E p \in Procs : RegisterAsgBody(p)
    \/ \E p \in Procs : GetAsgForInstanceLock(p)
    \/ \E p \in Procs : GetAsgForInstanceRead(p)
    \/ \E p \in Procs : GetAsgForInstanceAfter(p)
    \/ \E p \in Procs, g \in Asgs, node \in NodeIds : Belongs(p, g, node)
    \/ \E p \in Procs : BelongsStart(p)
    \/ \E p \in Procs : BelongsAfter(p)
    \/ \E p \in Procs : Finish(p)
NextBelongs == NextBelongsOps /\ UNCHANGED <<suVars, ng, bld, gn>>
SpecBelongs == Init /\ [][NextBelongs]_vars

\* calls of GceProvider.GetNodeGroups
NextGetNodeGroups == NextGetNodeGroupsOps /\ UNCHANGED <<awsVars, suVars, ng, bld>>
SpecGetNodeGroups == Init /\ [][NextGetNodeGroups]_vars

\* one caller making the size-changing calls of both backends one after the
\* other; a call that returned an error is the last one
Quiet ==
    /\ \A p \in Procs : pc[p] = "idle"
    /\ \A c \in Callers : ng.call[c].pc = "idle"
    /\ su.pc = "idle"

\* the pods and nodes of the cycles run between the other calls: every pod
\* pending, a node of each group observed
CyclePods == Ascending(Pods)
CycleNodes == <<"n1", "n2">>

FinishSucceeded(p) == ret[p].err = ErrNil /\ Finish(p)

NgFinishSucceeded(c) ==
    /\ ng.call[c].pc = "done"
    /\ ng.call[c].err = ErrNil
    /\ ng' = NgIdle
    /\ UNCHANGED <<desired, migSize>>

ScaleUpFinishSucceeded == su.err = ErrNil /\ ScaleUpFinish

\* both AWS groups are registered, as BuildAwsCloudProvider leaves them, and
\* every target size is within the bounds of its group
InitBounds ==
    /\ asgs = <<"A", "B">>
    /\ asgCache = EmptyCache
    /\ cacheMutex = NoProc
    /\ desired = [g \in Asgs |-> IF g = "A" THEN MaxCap ELSE 1]
    /\ pc = [p \in Procs |-> "idle"]
    /\ stack = [p \in Procs |-> <<>>]
    /\ loc = [p \in Procs |-> NoLoc]
    /\ ret = [p \in Procs |-> NoRet]
    /\ obs = [p \in Procs |-> NoObs]
    /\ migSize \in [Migs -> 1..MaxInitSize]
    /\ \A g \in Migs : migSize[g] <= MigMaxSize(g)
    /\ su = SuIdle
    /\ ng = NgIdle
    /\ bld = BldIdle
    /\ gn = GnIdle

NextBoundsAws ==
    \/ RegenerateCacheGroup("c1")
    \/ RegenerateCacheSwap("c1")
    \/ GetAsgForInstanceLock("c1")
    \/ GetAsgForInstanceRead("c1")
    \/ GetAsgForInstanceAfter("c1")
    \/ BelongsStart("c1")
    \/ BelongsAfter("c1")
    \/ Quiet /\ \E instances \in RefLists : DeleteInstances("c1", instances)
    \/ DeleteInstancesStart("c1")
    \/ DeleteInstancesCommon("c1")
    \/ DeleteInstancesLoop("c1")
    \/ DeleteInstancesCheck("c1")
    \/ DeleteInstancesTerminate("c1")
    \/ Quiet /\ \E g \in Asgs, nodes \in NodeLists : DeleteNodes("c1", g, nodes)
    \/ DeleteNodesSize("c1")
    \/ DeleteNodesLoop("c1")
    \/ DeleteNodesBelongs("c1")
    \/ FinishSucceeded("c1")

NextBoundsSizeOps ==
    \/ Quiet /\ \E g \in Asgs, delta \in Deltas : IncreaseSize("c1", g, delta)
    \/ IncreaseSizeGet("c1")
    \/ IncreaseSizeSet("c1")
    \/ Quiet /\ \E g \in Migs, size \in Requests : SetSize("c1", g, size)
    \/ NgFinishSucceeded("c1")

NextBoundsScaleUp ==
    \/ Quiet /\ ScaleUpStart(CyclePods, CycleNodes)
    \/ ScaleUpGetNodeGroups
    \/ ScaleUpGroup
    \/ ScaleUpPod
    \/ ScaleUpPick
    \/ ScaleUpGetCurrentSize
    \/ ScaleUpSetSize
    \/ ScaleUpFinishSucceeded

NextBounds ==
    \/ NextBoundsAws /\ UNCHANGED <<suVars, ng, bld, gn>>
    \/ /\ NextBoundsSizeOps
       /\ UNCHANGED <<asgs, asgCache, cacheMutex, pc, stack, loc, ret, obs, su, bld, gn>>
    \/ NextBoundsScaleUp /\ UNCHANGED <<awsVars, ng, bld, gn>>
SpecBounds == InitBounds /\ [][NextBounds]_vars

\* the scale-up cycles over the GCE node groups
InitCycle ==
    /\ InitAws
    /\ InitScaleUp
    /\ ng = NgIdle
    /\ bld = BldIdle
    /\ gn = GnIdle
NextCycle == NextScaleUp /\ UNCHANGED <<awsVars, ng, bld, gn>>
SpecScaleUp == InitCycle /\ [][NextCycle]_vars

\* concurrent direct calls of the size operations
InitSizeOps ==
    /\ asgs = <<>>
    /\ asgCache = EmptyCache
    /\ cacheMutex = NoProc
    /\ desired = InitDesired
    /\ pc = [p \in Procs |-> "idle"]
    /\ stack = [p \in Procs |-> <<>>]
    /\ loc = [p \in Procs |-> NoLoc]
    /\ ret = [p \in Procs |-> NoRet]
    /\ obs = [p \in Procs |-> NoObs]
    /\ migSize = [g \in Migs |-> 0]
    /\ su = SuIdle
    /\ ng = NgIdle
    /\ bld = BldIdle
    /\ gn = GnIdle
NextSize ==
    /\ NextSizeOps
    /\ UNCHANGED <<asgs, asgCache, cacheMutex, pc, stack, loc, ret, obs, su, bld, gn>>
SpecSizeOps == InitSizeOps /\ [][NextSize]_vars

\* concurrent direct calls of gceNodeGroup.SetSize
NextSetSize ==
    /\ NextSetSizeOps
    /\ UNCHANGED <<asgs, asgCache, cacheMutex, pc, stack, loc, ret, obs, su, bld, gn>>
SpecSetSize == InitSizeOps /\ [][NextSetSize]_vars

\* calls of buildAsg on spec strings
NextParse ==
    /\ NextParseOps
    /\ UNCHANGED <<asgCache, cacheMutex, desired, pc, stack, loc, ret, obs, suVars, ng, gn>>
SpecParse == Init /\ [][NextParse]_vars

\* the construction of the provider on a manager just created
NextBuild ==
    /\ NextBuildOps
    /\ UNCHANGED <<asgCache, cacheMutex, desired, pc, stack, loc, ret, obs, suVars, ng, gn>>
SpecBuild == Init /\ [][NextBuild]_vars

(***************************************************************************)
(* Properties of the scale-up cycle.                                       *)
(***************************************************************************)
Min(a, b) == IF a <= b THEN a ELSE b

C3_WitnessCapped ==
    /\ su.pc = "done"
    /\ su.scaled
    /\ su.estimate > MigMaxSize(su.best.mig)
    /\ migSize[su.best.mig] = MigMaxSize(su.best.mig)

\* C4: a cycle that returns true leaves the chosen group's target size
\* strictly greater than it was before the cycle.
C4_ScaleUpGrowsTheGroup ==
    (su.pc = "done" /\ su.scaled) =>
        migSize[su.best.mig] > su.before[su.best.mig]

\* the groups of a list of node groups, in order
GroupsOf(nodeGroups) == [k \in 1..Len(nodeGroups) |-> nodeGroups[k].mig]
\* the cycle went through the whole loop over the node groups
LoopDone == su.gi >= 1 /\ su.pc \notin {"group", "pods"}
\* the groups for which some pod passed CheckPredicates, the pods that
\* failed it for some group, and the pods of each kind of event
Helped == {c.mig : c \in {d \in su.checks : d.ok}}
FailedPods == {c.pod : c \in {d \in su.checks : ~d.ok}}
TriggeredPods == {e.pod : e \in {d \in su.events : d.type = "TriggeredScaleUp"}}
NoScaleUpPods == {e.pod : e \in {d \in su.events : d.type = "NotTriggerScaleUp"}}

\* C14: a cycle given no pending pod returns (false, nil) at once: no call
\* to the provider, the simulator or a node group, no event, and the
\* groups' sizes as they were.
C14_NoPodsNoBackendCall ==
    (su.pc # "idle" /\ su.pods = <<>>) =>
        /\ su.pc = "done" /\ ~su.scaled /\ su.err = ErrNil
        /\ su.calls = {} /\ su.events = {} /\ su.setCalls = <<>>
        /\ migSize = su.before

\* a cycle given observed nodes but no pod
C14_Witness ==
    /\ su.pc = "done"
    /\ su.pods = <<>>
    /\ su.nodes # <<>>
    /\ ~su.scaled /\ su.err = ErrNil

\* C15: a group whose IsScaleUpPossible gave false or an error is neither
\* an option nor resized in the cycle, and the cycle goes on: once the loop
\* over the groups has started, the cycle leaves it only after every group,
\* in discovery order, was asked.
C15_SkippedGroupDoesNotEndCycle ==
    /\ \A k \in 1..Len(su.setCalls) : su.setCalls[k].mig \notin su.skipped
    /\ \A k \in 1..Len(su.expansionOptions) : su.expansionOptions[k].mig \notin su.skipped
    /\ su.best.mig \notin su.skipped
    /\ \A g \in su.skipped : migSize[g] = su.before[g] /\ g \notin Helped
    /\ LoopDone => su.asked = GroupsOf(su.nodeGroups)

\* the first group was skipped and the second one was resized
C15_Witness ==
    /\ su.pc = "done" /\ su.scaled
    /\ Len(su.nodeGroups) = 2
    /\ su.nodeGroups[1].mig \in su.skipped
    /\ su.best.mig = su.nodeGroups[2].mig
    /\ migSize[su.best.mig] # su.before[su.best.mig]

\* C16: a cycle makes at most one resize call and changes the size of at
\* most one group, and the group it resizes is the first one, in discovery
\* order, that was not skipped and for which some pod passed the check.
C16_FirstHelpingGroupOnly ==
    /\ Len(su.setCalls) <= 1
    /\ su.pc # "idle" =>
            \A g \in Migs : migSize[g] # su.before[g] =>
                (su.setCalls # <<>> /\ g = su.setCalls[1].mig)
    /\ su.setCalls # <<>> =>
            \E k \in 1..Len(su.nodeGroups) :
                /\ su.nodeGroups[k].mig = su.setCalls[1].mig
                /\ su.nodeGroups[k].mig \in Helped \ su.skipped
                /\ \A m \in 1..(k - 1) : su.nodeGroups[m].mig \notin Helped
    /\ (su.pc = "done" /\ su.scaled) =>
            (Len(su.setCalls) = 1 /\ su.setCalls[1].mig = su.best.mig)

\* both discovered groups helped some pod and the first one was resized
C16_Witness ==
    /\ su.pc = "done" /\ su.scaled
    /\ Len(su.nodeGroups) = 2
    /\ GroupsOf(su.nodeGroups)[1] \in Helped
    /\ GroupsOf(su.nodeGroups)[2] \in Helped
    /\ su.setCalls = <<[mig |-> su.nodeGroups[1].mig, size |-> migSize[su.nodeGroups[1].mig]]>>

\* C17: a cycle in which no group helped any pod ends with (false, nil) and
\* without a resize, and its "no scale-up" events go to exactly the pods that
\* failed CheckPredicates for some group; no pod gets both a "triggered
\* scale-up" and a "no scale-up" event in one cycle.
C17_NoDecisionEvents ==
    /\ (su.pc = "done" /\ LoopDone /\ Helped = {}) =>
            /\ ~su.scaled /\ su.err = ErrNil
            /\ su.setCalls = <<>> /\ migSize = su.before
            /\ NoScaleUpPods = FailedPods
            /\ TriggeredPods = {}
    /\ NoScaleUpPods \cap TriggeredPods = {}
    /\ NoScaleUpPods # {} => ~su.scaled

\* a cycle without decision in which one pod failed the check and another
\* pod was never checked
C17_Witness ==
    /\ su.pc = "done" /\ LoopDone /\ Helped = {}
    /\ NoScaleUpPods # {}
    /\ \E k \in 1..Len(su.pods) : su.pods[k] \notin NoScaleUpPods

\* C18: when reading the chosen group's size fails the cycle returns an
\* error and has made no resize call; when the resize fails the cycle
\* returns the error; in both cases no "triggered scale-up" event is
\* recorded and the cycle does not report a scale-up.
C18_SizeErrorsFailTheCycle ==
    su.pc = "done" =>
        /\ su.failedAt = "GetCurrentSize" =>
                /\ su.err # ErrNil /\ ~su.scaled
                /\ su.setCalls = <<>> /\ migSize = su.before
                /\ su.events = {}
        /\ su.failedAt = "SetSize" =>
                /\ su.err # ErrNil /\ ~su.scaled
                /\ su.events = {}
        /\ su.scaled => (su.failedAt = "none" /\ su.err = ErrNil)

\* a cycle whose resize call failed
C18_Witness ==
    /\ su.pc = "done"
    /\ su.failedAt = "SetSize"
    /\ Len(su.setCalls) = 1
    /\ su.err = ErrBackend

\* a cycle that could not read the chosen group's size
C18_WitnessGetCurrentSize ==
    /\ su.pc = "done"
    /\ su.failedAt = "GetCurrentSize"
    /\ su.best # NoOption
    /\ su.err = ErrBackend

(***************************************************************************)
(* Properties of the size operations.                                      *)
(***************************************************************************)
\* the step of caller c in which its call of op returns
Returns(c, op) ==
    /\ ng.call[c].pc # "done"
    /\ ng'.call[c].pc = "done"
    /\ ng'.call[c].op = op

\* C11: IncreaseSize(delta) fails and leaves the backend as it is for
\* every delta <= 0 (without any backend call) and for every delta > 0 with
\* currentSize + delta > MaxSize, currentSize being the size the call read;
\* for delta > 0 with currentSize + delta <= MaxSize it hands
\* currentSize + delta to the backend, returns nil exactly when the backend
\* calls worked, and the group's size is then currentSize + delta.
C11_IncreaseSizeChecked ==
    [][\A c \in Callers :
        Returns(c, "IncreaseSize") =>
            LET k == ng'.call[c] IN
            /\ k.arg <= 0 =>
                    /\ k.err = ErrPositive
                    /\ k.size = 0 - 1 /\ k.wrote = 0 - 1 /\ k.backend = "none"
                    /\ desired' = desired
            /\ (k.arg > 0 /\ k.size >= 0 /\ k.size + k.arg > AsgMaxSize(k.group)) =>
                    /\ k.err = ErrTooLarge
                    /\ k.wrote = 0 - 1
                    /\ desired' = desired
            /\ (k.arg > 0 /\ k.size >= 0 /\ k.size + k.arg <= AsgMaxSize(k.group)) =>
                    /\ k.wrote = k.size + k.arg
                    /\ k.err = ErrNil <=> k.backend = "ok"
                    /\ k.err = ErrNil => desired'[k.group] = k.size + k.arg
                    /\ k.err # ErrNil => (k.err = ErrBackend /\ desired' = desired)
            /\ (k.arg > 0 /\ k.size < 0) =>
                    /\ k.err = ErrBackend /\ k.backend = "failed"
                    /\ desired' = desired
    ]_vars

\* an IncreaseSize that grew a non-empty group up to MaxSize
C11_Witness ==
    \E c \in Callers :
        LET k == ng.call[c] IN
        /\ k.op = "IncreaseSize" /\ k.pc = "done" /\ k.err = ErrNil
        /\ k.size >= 1 /\ k.arg >= 1
        /\ k.size + k.arg = AsgMaxSize(k.group)
        /\ desired[k.group] = k.size + k.arg

\* an IncreaseSize refused because the sum is above MaxSize
C11_WitnessTooLarge ==
    \E c \in Callers :
        LET k == ng.call[c] IN
        /\ k.op = "IncreaseSize" /\ k.pc = "done" /\ k.err = ErrTooLarge
        /\ k.arg > 0 /\ k.size + k.arg > AsgMaxSize(k.group)

\* C12: the size read and the size write of an IncreaseSize act atomically:
\* between them no other call changes the group's size, so the target
\* never exceeds MaxSize and is the initial size plus every granted
\* increment.
C12_SizeCallsSerialized ==
    /\ \A c \in Callers :
        (ng.call[c].op = "IncreaseSize" /\ ng.call[c].pc = "is_set")
            => desired[ng.call[c].group] = ng.call[c].size
    /\ \A g \in Asgs :
        /\ desired[g] <= AsgMaxSize(g)
        /\ desired[g] = InitDesired[g] + ng.granted[g]

\* C13: SetSize hands the backend MaxSize for every requested size above
\* MaxSize and the requested size otherwise, never more than MaxSize; the
\* cap is not an error: the call fails only when the backend call fails,
\* and when it does not fail the group's target is the size handed over.
C13_SetSizeCapsAtMax ==
    [][\A c \in Callers :
        Returns(c, "SetSize") =>
            LET k == ng'.call[c] IN
            /\ k.arg > MigMaxSize(k.group) => k.wrote = MigMaxSize(k.group)
            /\ k.arg <= MigMaxSize(k.group) => k.wrote = k.arg
            /\ k.wrote <= MigMaxSize(k.group)
            /\ k.err # ErrNil <=> k.backend = "failed"
            /\ k.err = ErrNil => migSize'[k.group] = k.wrote
            /\ k.err # ErrNil => migSize' = migSize
    ]_vars

\* SetSize asked for two more than MaxSize 3 returned nil and set 3
C13_Witness ==
    \E c \in Callers :
        LET k == ng.call[c] IN
        /\ k.op = "SetSize" /\ k.pc = "done" /\ k.err = ErrNil
        /\ MigMaxSize(k.group) = 3
        /\ k.arg > MigMaxSize(k.group)
        /\ migSize[k.group] = 3

(***************************************************************************)
(* Properties of the construction from spec strings.                       *)
(***************************************************************************)
\* C19: when a spec of the list is rejected, BuildAwsCloudProvider returns
\* an error and no provider, and none of the list's groups is registered
\* with the manager.
C19_BuildAllOrNothing ==
    (bld.op = "BuildAwsCloudProvider" /\ bld.pc = "done" /\ bld.err # ErrNil) =>
        /\ ~bld.provider
        /\ asgs = <<>>

\* strconv.Itoa: the decimal text of an integer
RECURSIVE Itoa(_)
Itoa(n) ==
    IF n < 0 THEN <<"-">> \o Itoa(0 - n)
    ELSE IF n < 10 THEN <<Digits[n + 1]>>
    ELSE Itoa(n \div 10) \o <<Digits[(n % 10) + 1]>>

\* the positions of the colons of a string, and the string's fields: the
\* text before the first colon, the text between the first two colons and
\* the text after the second colon
ColonsOf(value) == {k \in 1..Len(value) : value[k] = ":"}
FirstColon(value) == CHOOSE k \in ColonsOf(value) : \A j \in ColonsOf(value) : k <= j
SecondColon(value) ==
    CHOOSE k \in ColonsOf(value) \ {FirstColon(value)} :
        \A j \in ColonsOf(value) \ {FirstColon(value)} : k <= j
MinField(value) == SubSeq(value, 1, FirstColon(value) - 1)
MaxField(value) == SubSeq(value, FirstColon(value) + 1, SecondColon(value) - 1)
\* a field that is the text of an integer: digits after an optional sign
IntegerText(tok) ==
    \E sign \in {<<>>, <<"-">>, <<"+">>} :
        /\ Len(tok) > Len(sign)
        /\ SubSeq(tok, 1, Len(sign)) = sign
        /\ \A k \in (Len(sign) + 1)..Len(tok) : tok[k] \in {"0", "1", "2", "3", "4", "5", "6", "7", "8", "9"}
Numbers == (0 - MaxNumber)..MaxNumber

BelongsReturns(p) == pc[p] = "bl_after" /\ pc'[p] # "bl_after"

\* C21: Belongs(node) on a group returns true exactly when the lookup of the
\* node's reference gave this group; it returns false without an error when
\* the lookup gave another registered group; it returns an error when the
\* lookup gave no group or failed.
C21_BelongsFollowsLookup ==
    [][\A p \in Procs :
         BelongsReturns(p) =>
           LET targetAsg == ret[p].asg
               failed == ret[p].err # ErrNil
               this == loc[p].asg
               out == ret'[p]
           IN /\ out.ok <=> (~failed /\ targetAsg = this)
              /\ (~failed /\ targetAsg \notin {NoAsg, this}) =>
                    /\ ~out.ok
                    /\ out.err = ErrNil
                    /\ \E k \in 1..Len(asgs) : asgs[k] = targetAsg
              /\ (failed \/ targetAsg = NoAsg) => out.err # ErrNil]_vars

\* Belongs was asked on a group about a node of the other group and has
\* answered false without an error
C21_Witness ==
    \E p \in Procs :
        /\ pc[p] = "done"
        /\ loc[p].op = "Belongs"
        /\ obs[p].owners # {}
        /\ obs[p].owners \cap {NoAsg, loc[p].asg} = {}
        /\ ~ret[p].ok
        /\ ret[p].err = ErrNil

\* Belongs has answered true
C21_WitnessOwn ==
    \E p \in Procs :
        /\ pc[p] = "done"
        /\ loc[p].op = "Belongs"
        /\ obs[p].owners = {loc[p].asg}
        /\ ret[p].ok

\* the lookup gave no group and no error, and Belongs has answered an error
C21_WitnessUnknown ==
    \E p \in Procs :
        /\ pc[p] = "done"
        /\ loc[p].op = "Belongs"
        /\ obs[p].owners = {NoAsg}
        /\ ret[p].err = ErrUnknown

\* the lookup failed and Belongs has answered its error
C21_WitnessLookupFailed ==
    \E p \in Procs :
        /\ pc[p] = "done"
        /\ loc[p].op = "Belongs"
        /\ ret[p].err \in {ErrLookup, ErrNotConfigured}

(***************************************************************************)
(* Properties of GceProvider.GetNodeGroups.                                *)
(***************************************************************************)
\* the groups that own at least one of the nodes
OwnersOf(nodes) == {GetMigForInstance(nodes[k]) : k \in 1..Len(nodes)} \ {NoMig}

\* the place of the first node of the list that the group owns
FirstOwned(nodes, mig) ==
    CHOOSE k \in 1..Len(nodes) :
        /\ GetMigForInstance(nodes[k]) = mig
        /\ \A j \in 1..(k - 1) : GetMigForInstance(nodes[j]) # mig

\* the list holds each owning group once, in the order of first occurrence,
\* each with its first node as the sample node
OwnersInOrder(nodes, nodeGroups) ==
    /\ \A mig \in OwnersOf(nodes) :
          \E m \in 1..Len(nodeGroups) :
              /\ nodeGroups[m].mig = mig
              /\ nodeGroups[m].sampleNode = nodes[FirstOwned(nodes, mig)]
              /\ \A j \in 1..Len(nodeGroups) : nodeGroups[j].mig = mig => j = m
    /\ \A a, b \in 1..Len(nodeGroups) :
          (/\ a < b
           /\ nodeGroups[a].mig \in OwnersOf(nodes)
           /\ nodeGroups[b].mig \in OwnersOf(nodes)) =>
              FirstOwned(nodes, nodeGroups[a].mig) < FirstOwned(nodes, nodeGroups[b].mig)

\* C22: GetNodeGroups returns each group that owns an observed node once,
\* in the order of first occurrence and with that first node as its sample
\* node, and nothing that owns none of the observed nodes; when resolving a
\* node fails it returns an error and an empty list.
C22_GroupsOfObservedNodes ==
    gn.pc = "done" =>
        IF gn.err = ErrNil
        THEN /\ OwnersInOrder(gn.nodes, gn.out)
             /\ \A m \in 1..Len(gn.out) : gn.out[m].mig \in OwnersOf(gn.nodes)
        ELSE gn.out = <<>>

\* what the call does return: besides the owning groups, one entry without
\* a group when an observed node is a member of no group, its sample node
\* the first such node
C22_EntryForUnmanagedNodes ==
    gn.pc = "done" =>
        IF gn.err = ErrNil
        THEN /\ OwnersInOrder(gn.nodes, gn.out)
             /\ \A m \in 1..Len(gn.out) :
                   gn.out[m].mig \in OwnersOf(gn.nodes) \cup {NoMig}
             /\ (\E m \in 1..Len(gn.out) : gn.out[m].mig = NoMig)
                   <=> (\E k \in 1..Len(gn.nodes) : gn.nodes[k] = UnmanagedNode)
        ELSE gn.out = <<>>

\* a call on two nodes of one group and a node of another has returned
C22_WitnessOwners ==
    /\ gn.pc = "done"
    /\ gn.err = ErrNil
    /\ Len(gn.nodes) = 3
    /\ Len(gn.out) = 2
    /\ \A m \in 1..2 : gn.out[m].mig # NoMig

\* a call has failed after a group was found
C22_WitnessFailed ==
    /\ gn.pc = "done"
    /\ gn.err # ErrNil
    /\ gn.nodeGroups # <<>>

(***************************************************************************)
(* Properties of the target sizes.                                         *)
(***************************************************************************)
\* of the groups registered with the manager
AsgTargetsInBounds ==
    \A k \in 1..Len(asgs) : desired[asgs[k]] \in AsgMinSize(asgs[k])..AsgMaxSize(asgs[k])
MigTargetsInBounds == \A g \in Migs : migSize[g] \in MigMinSize(g)..MigMaxSize(g)

\* C23: from target sizes within [MinSize, MaxSize], after any sequence of
\* successful ScaleUp cycles and SetSize, IncreaseSize, DeleteNodes and
\* DeleteInstances calls, every group's target size is within
\* [MinSize, MaxSize].
C23_TargetsStayInBounds == Quiet => AsgTargetsInBounds /\ MigTargetsInBounds

\* the same of the AWS groups alone
C23_AsgTargetsStayInBounds == Quiet => AsgTargetsInBounds

\* the same of the GCE groups alone
C23_MigTargetsStayInBounds == Quiet => MigTargetsInBounds

\* the upper bound alone, of both backends
C23_TargetsStayBelowMax ==
    Quiet => /\ \A k \in 1..Len(asgs) : desired[asgs[k]] <= AsgMaxSize(asgs[k])
             /\ \A g \in Migs : migSize[g] <= MigMaxSize(g)

====
